---- MODULE Spec2Model ----
(***************************************************************************)
(* A model of nonebot/natural_language.py: the NLProcessor eligibility     *)
(* test, the NLPManager registry (class-wide set and per-instance working  *)
(* sets) and the coroutine handle_natural_language.                        *)
(*                                                                         *)
(* Python objects that are shared by reference (the set objects behind     *)
(* NLPManager._nl_processors and manager.nl_processors) are modelled as a  *)
(* heap: `sets' maps a set object to its contents, `nl_processors' maps a  *)
(* manager to the set object its attribute refers to.                      *)
(*                                                                         *)
(* handle_natural_language is a coroutine on a single-threaded event loop: *)
(* code between two suspension points runs atomically.  The dispatch is    *)
(* modelled in small steps, and every other task (registry calls, handler  *)
(* tasks) is enabled only while the dispatch is suspended.                 *)
(***************************************************************************)
EXTENDS Integers, Sequences, FiniteSets, TLC

\* ------------------------------------------------------------------ bounds
\* The NLProcessor objects and the NLPManager instances of a run.
Procs == {"p1", "p2", "p3"}
Mgrs == {"m1", "m2"}

\* Registry calls made by other tasks in one run.
MaxOps == 2

\* Message segments: "a" and "b" are one-character text segments, "I" is an
\* image segment (a CQ code that extract_plain_text drops).
Segments == {"a", "b", "I"}

\* bot.config.SHORT_MESSAGE_MAX_LENGTH, read at line 49.
SHORT_MESSAGE_MAX_LENGTH == 1

\* The literal 60.0 of line 230.  Confidences are floats in the code; the
\* model draws them from a few integers on both sides of the threshold.
ConfidenceThreshold == 60

\* ------------------------------------------------------------------- state
VARIABLES
    sets,             \* heap of set objects: object id -> set of processors
    nl_processors,    \* manager -> id of the set object self.nl_processors
    ret,              \* the last registry call and what it returned
    nops,             \* registry calls made so far
    processors,       \* processor -> its attributes (immutable, __slots__)
    pc,               \* where handle_natural_language is
    manager,          \* the manager argument of the dispatch
    event,            \* the event argument of the dispatch
    it,               \* the set iterator of the for loop at line 207
    p,                \* the loop variable p while p.test is suspended
    futures,          \* the list futures (line 206)
    fi,               \* index of fut in the for loop at line 215
    intent_commands,  \* the list intent_commands (line 214)
    completed,        \* indices into futures, in the order the tasks finished
    calls,            \* the call_command invocations of this dispatch
    result,           \* what handle_natural_language returned or raised
    frame             \* a call of NLProcessor.test made on its own

regvars == <<sets, nl_processors, ret, nops>>
dispvars == <<pc, manager, event, it, p, futures, fi, intent_commands,
              completed, calls, result>>
vars == <<sets, nl_processors, ret, nops, processors, pc, manager, event, it,
          p, futures, fi, intent_commands, completed, calls, result, frame>>

\* The set object behind the class attribute NLPManager._nl_processors.
ClsRef == "cls"
Null == "null"
SetRefs == {ClsRef} \cup Mgrs

\* NLPManager._nl_processors
cls_nl_processors == sets[ClsRef]

\* manager.nl_processors of a constructed manager
WorkingSet(m) == sets[nl_processors[m]]

Constructed(m) == nl_processors[m] # Null

\* Optional[bool] arguments and results
OptBool == {"None", "True", "False"}

\* `at' is where the dispatch was suspended (pc) when the call was made.
NoRet == [op |-> "-", proc |-> "-", state |-> "-", mgr |-> "-",
          val |-> "-", warned |-> FALSE, at |-> "-"]

\* What a registry call leaves in ret.
Returned(op, q, state, m, val, warned) ==
    [op |-> op, proc |-> q, state |-> state, mgr |-> m, val |-> val,
     warned |-> warned, at |-> pc]

\* ------------------------------------------------- scheduling of the loop
\* The dispatch coroutine is running (not suspended at an await): no other
\* task can run.  `await fut' on a finished future does not suspend.
AwaitingFut == pc = "gather" /\ fi <= Len(futures) /\ futures[fi].st = "pending"

Running ==
    \/ pc = "loop"
    \/ pc = "gather" /\ ~AwaitingFut

InFlight == pc \in {"loop", "perm", "gather", "call"}

\* ---------------------------------------------------------------- registry
\* An in-place mutation of set object r.  A live iterator over r (the for
\* loop of a suspended dispatch) is left over a changed table.
Mutate(r, S) ==
    /\ sets' = [sets EXCEPT ![r] = S]
    /\ it' = IF pc = "perm" /\ it.ref = r /\ S # sets[r]
               THEN [it EXCEPT !.dirty = TRUE]
               ELSE it

CanCall == ~Running /\ nops < MaxOps

\* set.copy() returning the class set itself instead of a new object.
AliasClassSet(m) == ClsRef

\* The new set object that set.copy() allocates for manager m.
NewSetObject(m) == m

\* NLPManager.__init__, lines 79-80.  A manager slot may be constructed
\* again (a new instance) unless a dispatch in flight holds the old one.
NLPManager_init(m) ==
    /\ CanCall
    /\ ~(InFlight /\ manager = m)
    /\ LET r == NewSetObject(m) IN
        /\ sets' = [sets EXCEPT ![r] = sets[ClsRef]]
        /\ nl_processors' = [nl_processors EXCEPT ![m] = r]
    /\ ret' = Returned("NLPManager", "-", "-",
                       m, "None", FALSE)
    /\ nops' = nops + 1
    /\ UNCHANGED <<processors, frame, dispvars>>

\* add_nl_processor raising on a duplicate instead of warning.
add_nl_processor_raising(q) ==
    /\ CanCall
    /\ IF q \in sets[ClsRef]
         THEN /\ ret' = Returned("add_nl_processor", q, "-",
                                 "-", "raise", FALSE)
              /\ UNCHANGED <<sets, it>>
         ELSE /\ Mutate(ClsRef, sets[ClsRef] \cup {q})
              /\ ret' = Returned("add_nl_processor", q, "-",
                                 "-", "None", FALSE)
    /\ nops' = nops + 1
    /\ UNCHANGED <<nl_processors, processors, frame, pc, manager, event, p, futures,
                   fi, intent_commands, completed, calls, result>>

\* NLPManager.add_nl_processor, lines 82-92
add_nl_processor(q) ==
    /\ CanCall
    /\ IF q \in sets[ClsRef]
         THEN /\ ret' = Returned("add_nl_processor", q, "-",
                                 "-", "None", TRUE)
              /\ UNCHANGED <<sets, it>>
         ELSE /\ Mutate(ClsRef, sets[ClsRef] \cup {q})
              /\ ret' = Returned("add_nl_processor", q, "-",
                                 "-", "None", FALSE)
    /\ nops' = nops + 1
    /\ UNCHANGED <<nl_processors, processors, frame, pc, manager, event, p, futures,
                   fi, intent_commands, completed, calls, result>>

\* NLPManager.remove_nl_processor, lines 94-107
remove_nl_processor(q) ==
    /\ CanCall
    /\ IF q \in sets[ClsRef]
         THEN /\ Mutate(ClsRef, sets[ClsRef] \ {q})
              /\ ret' = Returned("remove_nl_processor", q, "-",
                                 "-", "True", FALSE)
         ELSE /\ ret' = Returned("remove_nl_processor", q, "-",
                                 "-", "False", FALSE)
              /\ UNCHANGED <<sets, it>>
    /\ nops' = nops + 1
    /\ UNCHANGED <<nl_processors, processors, frame, pc, manager, event, p, futures,
                   fi, intent_commands, completed, calls, result>>

\* Python truthiness of an Optional[bool]: `not state'
NotState(state) == state \in {"None", "False"}

\* `state is not False'
IsNotFalse(state) == state # "False"

\* A toggle whose elif tests `state' for truth: an omitted state never adds.
SwitchOnTruthy(r, q, state) ==
    IF q \in sets[r] /\ NotState(state)
      THEN [set |-> sets[r] \ {q}, val |-> "True"]
      ELSE IF q \notin sets[r] /\ state = "True"
        THEN [set |-> sets[r] \cup {q}, val |-> "False"]
        ELSE [set |-> sets[r], val |-> "None"]

\* The body shared by switch_nlprocessor_global (lines 122-127) and
\* switch_nlprocessor (lines 140-145), on the set object r: the new contents
\* and the value returned.
Switch(r, q, state) ==
    IF q \in sets[r] /\ NotState(state)
      THEN [set |-> sets[r] \ {q}, val |-> "True"]
      ELSE IF q \notin sets[r] /\ IsNotFalse(state)
        THEN [set |-> sets[r] \cup {q}, val |-> "False"]
        ELSE [set |-> sets[r], val |-> "None"]

\* NLPManager.switch_nlprocessor_global, lines 109-127
switch_nlprocessor_global(q, state) ==
    /\ CanCall
    /\ LET s == Switch(ClsRef, q, state) IN
        /\ Mutate(ClsRef, s.set)
        /\ ret' = Returned("switch_nlprocessor_global", q, state,
                           "-", s.val, FALSE)
    /\ nops' = nops + 1
    /\ UNCHANGED <<nl_processors, processors, frame, pc, manager, event, p, futures,
                   fi, intent_commands, completed, calls, result>>

\* NLPManager.switch_nlprocessor, lines 129-145
switch_nlprocessor(m, q, state) ==
    /\ CanCall
    /\ Constructed(m)
    /\ LET s == Switch(nl_processors[m], q, state) IN
        /\ Mutate(nl_processors[m], s.set)
        /\ ret' = Returned("switch_nlprocessor", q, state,
                           m, s.val, FALSE)
    /\ nops' = nops + 1
    /\ UNCHANGED <<nl_processors, processors, frame, pc, manager, event, p, futures,
                   fi, intent_commands, completed, calls, result>>

\* ----------------------------------------------------------------- session
\* Message(msg).extract_plain_text(), line 155: the text segments of the raw
\* message, in order; image segments contribute nothing.
IsText(seg) == seg # "I"

msg_text(msg) == SelectSeq(msg, IsText)

\* `kw in session.msg_text' (line 58): kw is a substring of text.
IsSubstring(kw, text) ==
    \E i \in 0..(Len(text) - Len(kw)) : SubSeq(text, i + 1, i + Len(kw)) = kw

\* --------------------------------------------------------- NLProcessor.test
\* The empty-message rule left out of the test.
RulesWithoutEmptyCheck(P, ev, msg_text_length) ==
    /\ ~(P.only_short_message /\ msg_text_length > SHORT_MESSAGE_MAX_LENGTH)
    /\ ~(P.only_to_me /\ ~ev.to_me)

\* Lines 44-53: the three rules tested before the permission predicate is
\* called; FALSE is an early `return False'.
SyncRules(P, ev, msg_text_length) ==
    /\ ~(~P.allow_empty_message /\ ev.msg = <<>>)
    /\ ~(P.only_short_message /\ msg_text_length > SHORT_MESSAGE_MAX_LENGTH)
    /\ ~(P.only_to_me /\ ~ev.to_me)

\* Lines 56-63: should_run after the keyword loop, given what the
\* permission predicate answered.
KeywordRule(P, ev, should_run) ==
    IF should_run /\ P.keywords # {}
      THEN \E kw \in P.keywords : IsSubstring(kw, msg_text(ev.msg))
      ELSE should_run

\* ---------------------------------------------------------- handler results
NoRes == [kind |-> "-", confidence |-> 0, name |-> "-", args |-> "-",
          current_arg |-> "-"]

\* What a handler task can finish with.
ResNone == [NoRes EXCEPT !.kind = "None"]
ResOther == [NoRes EXCEPT !.kind = "Other"]
ResException == [NoRes EXCEPT !.kind = "Exception"]
ResBaseException == [NoRes EXCEPT !.kind = "BaseException"]

\* IntentCommand(confidence, name, args, current_arg), lines 178-185
IntentCommand(c, n, a, ca) ==
    [kind |-> "IntentCommand", confidence |-> c, name |-> n, args |-> a,
     current_arg |-> ca]

\* NLPResult(confidence, cmd_name, cmd_args), lines 163-170
NLPResult(c, n, a) ==
    [kind |-> "NLPResult", confidence |-> c, name |-> n, args |-> a,
     current_arg |-> "-"]

\* A conversion that loses the command's arguments.
to_intent_command_without_args(r) ==
    IntentCommand(r.confidence, r.name, "None", "")

\* NLPResult.to_intent_command, lines 172-175: current_arg takes its default
to_intent_command(r) == IntentCommand(r.confidence, r.name, r.args, "")

IsProposal(r) == r.kind \in {"NLPResult", "IntentCommand"}

\* ------------------------------------------------------------------ ranking
\* The key function of the sort dropped: the list is left in launch order.
Unsorted(s) == s

\* A sort that is not stable: an item goes in front of its equals.
RECURSIVE UnstableSort(_)
UnstableSort(s) ==
    IF s = <<>> THEN <<>>
    ELSE LET x == s[Len(s)]
             t == UnstableSort(SubSeq(s, 1, Len(s) - 1))
             k == Cardinality({i \in 1..Len(t) : t[i].confidence > x.confidence})
         IN SubSeq(t, 1, k) \o <<x>> \o SubSeq(t, k + 1, Len(t))

\* The list turned around: what was collected last comes first.
LastFirst(s) == [i \in 1..Len(s) |-> s[Len(s) + 1 - i]]

\* list.sort(key=lambda ic: ic.confidence, reverse=True), line 227: by
\* confidence, descending; the sort is stable, also with reverse=True.
RECURSIVE SortByConfidence(_)
SortByConfidence(s) ==
    IF s = <<>> THEN <<>>
    ELSE LET x == s[Len(s)]
             t == SortByConfidence(SubSeq(s, 1, Len(s) - 1))
             k == Cardinality({i \in 1..Len(t) : t[i].confidence >= x.confidence})
         IN SubSeq(t, 1, k) \o <<x>> \o SubSeq(t, k + 1, Len(t))

\* A strict comparison with the threshold.
AboveThreshold(c) == c > ConfidenceThreshold

\* No comparison with the threshold at all.
AnyConfidence(c) == TRUE

\* `intent_commands[0].confidence >= 60.0', line 230
ClearsThreshold(c) == c >= ConfidenceThreshold

\* ------------------------------------------------- handle_natural_language
\* `start' keeps the contents of the set when the iterator was created.
NoIter == [ref |-> Null, used |-> 0, yielded |-> {}, n |-> 0, dirty |-> FALSE,
           start |-> {}]

\* Lines 200-207, up to the creation of the iterator of the for loop.  A new
\* dispatch starts once the previous one has returned or raised.
handle_natural_language(m, ev) ==
    /\ pc \in {"idle", "done", "aborted"}
    /\ Constructed(m)
    /\ pc' = "loop"
    /\ manager' = m
    /\ event' = ev
    /\ it' = [ref |-> nl_processors[m], used |-> Cardinality(WorkingSet(m)),
              yielded |-> {}, n |-> 0, dirty |-> FALSE,
              start |-> WorkingSet(m)]
    /\ p' = "-"
    /\ futures' = <<>>
    /\ fi' = 0
    /\ intent_commands' = <<>>
    /\ completed' = <<>>
    /\ calls' = <<>>
    /\ result' = "-"
    /\ UNCHANGED <<regvars, processors, frame>>

\* What the set iterator may yield next.  Over an unchanged set: an element
\* not yet yielded, in no particular order.  Over a set that was mutated
\* and is back at its old size the iterator walks a changed hash table: it
\* may yield any element (again) or stop early, but no more than `used'
\* elements in all.
IterCandidates ==
    IF it.dirty
      THEN IF it.n < it.used THEN sets[it.ref] ELSE {}
      ELSE sets[it.ref] \ it.yielded

\* next() on the set iterator raises RuntimeError("Set changed size during
\* iteration"); nothing in handle_natural_language catches it.
for_p_raise ==
    /\ pc = "loop"
    /\ Cardinality(sets[it.ref]) # it.used
    /\ pc' = "aborted"
    /\ result' = "RuntimeError"
    /\ UNCHANGED <<regvars, processors, frame, manager, event, it, p, futures, fi,
                   intent_commands, completed, calls>>

\* Lines 207-208 and 41-55: the loop takes the next processor q and p.test
\* runs up to its await: an early `return False' goes on with the loop, else
\* the permission predicate is called and the dispatch is suspended.
for_p_next(q) ==
    /\ pc = "loop"
    /\ Cardinality(sets[it.ref]) = it.used
    /\ q \in IterCandidates
    /\ it' = [it EXCEPT !.yielded = @ \cup {q}, !.n = @ + 1]
    /\ IF SyncRules(processors[q], event, Len(msg_text(event.msg)))
         THEN pc' = "perm" /\ p' = q
         ELSE pc' = "loop" /\ p' = "-"
    /\ UNCHANGED <<regvars, processors, frame, manager, event, futures, fi,
                   intent_commands, completed, calls, result>>

\* The function falling off its end, returning None.
ReturnNone == "None"

\* `return False', line 243
ReturnFalse == "False"

\* The iterator is exhausted: the loop ends.  Lines 212-214 and 243.
for_p_exit ==
    /\ pc = "loop"
    /\ Cardinality(sets[it.ref]) = it.used
    /\ it.dirty \/ IterCandidates = {}
    /\ IF futures # <<>>
         THEN /\ pc' = "gather"
              /\ fi' = 1
              /\ result' = result
         ELSE /\ pc' = "done"
              /\ fi' = fi
              /\ result' = ReturnFalse
    /\ UNCHANGED <<regvars, processors, frame, manager, event, it, p, futures,
                   intent_commands, completed, calls>>

\* Lines 55-63 and 209-210: the permission predicate returns b; the keyword
\* rule is applied; an eligible processor's handler is scheduled as a task.
perm_return(b) ==
    /\ pc = "perm"
    /\ IF KeywordRule(processors[p], event, b)
         THEN futures' = Append(futures,
                                [proc |-> p, st |-> "pending", res |-> NoRes])
         ELSE futures' = futures
    /\ pc' = "loop"
    /\ p' = "-"
    /\ UNCHANGED <<regvars, processors, frame, manager, event, it, fi,
                   intent_commands, completed, calls, result>>

\* The permission predicate raises: nothing on the way up catches it.
perm_raise ==
    /\ pc = "perm"
    /\ pc' = "aborted"
    /\ result' = "PermError"
    /\ p' = "-"
    /\ UNCHANGED <<regvars, processors, frame, manager, event, it, futures, fi,
                   intent_commands, completed, calls>>

\* The task of futures[i] (p.func(session), line 210) finishes with r.  It
\* runs only while the dispatch is suspended.  Tasks that outlive the
\* dispatch are not followed.
task_done(i, r) ==
    /\ pc \in {"perm", "gather", "call"}
    /\ ~Running
    /\ i \in 1..Len(futures)
    /\ futures[i].st = "pending"
    /\ futures' = [futures EXCEPT ![i] = [@ EXCEPT !.st = "done", !.res = r]]
    /\ completed' = Append(completed, i)
    /\ UNCHANGED <<regvars, processors, frame, pc, manager, event, it, p, fi,
                   intent_commands, calls, result>>

\* A handler's exception not caught: it aborts the dispatch.
CollectNoTry(r) ==
    IF r.kind = "NLPResult"
      THEN [raised |-> FALSE, add |-> <<to_intent_command(r)>>]
      ELSE IF r.kind = "IntentCommand"
        THEN [raised |-> FALSE, add |-> <<r>>]
        ELSE IF r.kind \in {"Exception", "BaseException"}
          THEN [raised |-> TRUE, add |-> <<>>]
          ELSE [raised |-> FALSE, add |-> <<>>]

\* Lines 216-225 for one finished future with outcome r: what is appended to
\* intent_commands, and whether an exception leaves the try statement
\* (`except Exception' does not catch a BaseException).
Collect(r) ==
    IF r.kind = "NLPResult"
      THEN [raised |-> FALSE, add |-> <<to_intent_command(r)>>]
      ELSE IF r.kind = "IntentCommand"
        THEN [raised |-> FALSE, add |-> <<r>>]
        ELSE IF r.kind = "BaseException"
          THEN [raised |-> TRUE, add |-> <<>>]
          ELSE [raised |-> FALSE, add |-> <<>>]

\* `await fut' (line 217) resumes only when the task of futures[i] has
\* finished: there is no timeout and no cancellation.
Resolved(i) == futures[i].st = "done"

\* Lines 215-225: `await fut' on the finished future futures[fi].
await_fut ==
    /\ pc = "gather"
    /\ fi <= Len(futures)
    /\ Resolved(fi)
    /\ LET c == Collect(futures[fi].res) IN
         IF c.raised
           THEN /\ pc' = "aborted"
                /\ result' = "BaseException"
                /\ UNCHANGED <<fi, intent_commands>>
           ELSE /\ intent_commands' = intent_commands \o c.add
                /\ fi' = fi + 1
                /\ UNCHANGED <<pc, result>>
    /\ UNCHANGED <<regvars, processors, frame, manager, event, it, p, futures,
                   completed, calls>>

\* Leaving the await loop as soon as one proposal is in.
SomeAwaited == fi > Len(futures) \/ intent_commands # <<>>

\* The for loop of line 215 has awaited every future of the list.
AllAwaited == fi > Len(futures)

\* Lines 227-243: sort, compare the first with the threshold, and call
\* call_command with it or return False.
rank ==
    /\ pc = "gather"
    /\ AllAwaited
    /\ LET sorted == SortByConfidence(intent_commands) IN
        /\ intent_commands' = sorted
        /\ IF sorted # <<>> /\ ClearsThreshold(sorted[1].confidence)
             THEN /\ pc' = "call"
                  /\ calls' = Append(calls,
                        [name |-> sorted[1].name, args |-> sorted[1].args,
                         current_arg |-> sorted[1].current_arg,
                         check_perm |-> FALSE, returned |-> "-"])
                  /\ result' = result
             ELSE /\ pc' = "done"
                  /\ calls' = calls
                  /\ result' = ReturnFalse
    /\ UNCHANGED <<regvars, processors, frame, manager, event, it, p, futures, fi,
                   completed>>

\* The result of call_command dropped and True returned.
ReturnHandled(b) == "True"

\* `return await call_command(...)', line 235: the value passes through.
ReturnOf(b) == b

\* Line 235: call_command returns b, which the dispatch returns.
call_command_return(b) ==
    /\ pc = "call"
    /\ pc' = "done"
    /\ calls' = [calls EXCEPT ![Len(calls)].returned = b]
    /\ result' = ReturnOf(b)
    /\ UNCHANGED <<regvars, processors, frame, manager, event, it, p, futures, fi,
                   intent_commands, completed>>

\* Line 235: call_command raises, and so does the dispatch.
call_command_raise ==
    /\ pc = "call"
    /\ pc' = "aborted"
    /\ result' = "CallError"
    /\ UNCHANGED <<regvars, processors, frame, manager, event, it, p, futures, fi,
                   intent_commands, completed, calls>>

\* ------------------------------------------- NLProcessor.test on its own
\* No call of test made yet.
NoFrame ==
    [at |-> "-", proc |-> "-", ev |-> [msg |-> <<>>, to_me |-> FALSE],
     arg |-> <<>>, perm_calls |-> 0, answer |-> FALSE, kw_tested |-> FALSE,
     value |-> FALSE,
     prev |-> [valid |-> FALSE, arg |-> <<>>, answer |-> FALSE,
               value |-> FALSE]]

\* The length of the raw message (its segments) taken for the default.
RawLength(ev) == Len(ev.msg)

\* Lines 41-42: the default of msg_text_length is len(session.msg_text).
DefaultLength(ev) == Len(msg_text(ev.msg))

\* msg_text_length as the rules use it; arg is <<>> when the argument is
\* omitted (None) and <<n>> when n is passed.
TestLength(ev, arg) == IF arg = <<>> THEN DefaultLength(ev) ELSE arg[1]

\* The keyword loop run whatever the permission predicate answered.
TestsKeywordsAlways(P, should_run) == P.keywords # {}

\* Line 56: the keyword loop is entered if should_run is true and the
\* processor has keywords.
TestsKeywords(P, should_run) == should_run /\ P.keywords # {}

\* What a call of test that returned leaves behind for the next call.
Previous ==
    IF frame.at = "returned"
      THEN [valid |-> TRUE, arg |-> frame.arg, answer |-> frame.answer,
            value |-> frame.value]
      ELSE frame.prev

\* A call p.test(session, msg_text_length) outside a dispatch, lines 41-55:
\* up to the first `return False' or to the await of the permission
\* predicate.  Calls follow one another on one processor and one session.
test(q, ev, arg) ==
    /\ frame.at # "perm"
    /\ frame.at # "-" => (q = frame.proc /\ ev = frame.ev)
    /\ IF SyncRules(processors[q], ev, TestLength(ev, arg))
         THEN frame' = [NoFrame EXCEPT !.at = "perm", !.proc = q, !.ev = ev,
                          !.arg = arg, !.perm_calls = 1, !.prev = Previous]
         ELSE frame' = [NoFrame EXCEPT !.at = "returned", !.proc = q,
                          !.ev = ev, !.arg = arg, !.prev = Previous]
    /\ UNCHANGED <<regvars, processors, dispvars>>

\* Lines 55-63: the permission predicate returns b, the keyword rule is
\* applied and test returns.
check_perm_return(b) ==
    /\ frame.at = "perm"
    /\ frame' = [frame EXCEPT
                    !.at = "returned",
                    !.answer = b,
                    !.kw_tested = TestsKeywords(processors[frame.proc], b),
                    !.value = KeywordRule(processors[frame.proc], frame.ev, b)]
    /\ UNCHANGED <<regvars, processors, dispvars>>

\* Lines 55 and 73: the permission predicate raises, and so does test.
check_perm_raise ==
    /\ frame.at = "perm"
    /\ frame' = [frame EXCEPT !.at = "raised"]
    /\ UNCHANGED <<regvars, processors, dispvars>>

\* ------------------------------------------------------------------ inputs
\* Raw messages: sequences of at most MaxMsgLen segments.
MaxMsgLen == 2

Msgs == UNION {[1..n -> Segments] : n \in 0..MaxMsgLen}

Events == [msg : Msgs, to_me : BOOLEAN]

\* NLProcessor.__init__, lines 19-28 (func and perm_checker_func are
\* callables: what they answer is chosen when they are called).
NLProcessor(kw, otm, osm, aem) ==
    [keywords |-> kw, only_to_me |-> otm, only_short_message |-> osm,
     allow_empty_message |-> aem]

KeywordSets == {{}, {<<"a">>}, {<<"b">>, <<"a", "b">>}}

AllProcessors ==
    {NLProcessor(kw, otm, osm, aem) :
        kw \in KeywordSets, otm \in BOOLEAN, osm \in BOOLEAN, aem \in BOOLEAN}

\* A processor with no rule that can fail before the permission predicate.
Permissive == NLProcessor({}, FALSE, FALSE, TRUE)

Confidences == {59, 60, 75}

\* Every kind of outcome of the handler of processor q.  A handler names
\* its own command, so a routed command tells which handler proposed it.
Results(q) ==
    {ResNone, ResOther, ResException, ResBaseException}
    \cup {IntentCommand(c, q, "args", "x") : c \in Confidences}
    \cup {IntentCommand(75, q, "None", "")}
    \cup {NLPResult(c, q, "args") : c \in Confidences}

\* Two outcomes, for the specifications that vary something else.
FewResults(q) == {ResNone, IntentCommand(60, q, "args", "x")}

IdleDispatch ==
    /\ pc = "idle"
    /\ manager = "-"
    /\ event = [msg |-> <<>>, to_me |-> FALSE]
    /\ it = NoIter
    /\ p = "-"
    /\ futures = <<>>
    /\ fi = 0
    /\ intent_commands = <<>>
    /\ completed = <<>>
    /\ calls = <<>>
    /\ result = "-"

\* ---------------------------------------------------------- specifications
\* Spec: the whole program, with one manager.  Two plugins are loaded (p1
\* and p2 are registered, p3 is not yet), no manager is constructed yet.
\* Registry calls interleave with the dispatch wherever it is suspended.
Init ==
    /\ sets = [r \in SetRefs |-> IF r = ClsRef THEN {"p1", "p2"} ELSE {}]
    /\ nl_processors = [m \in Mgrs |-> Null]
    /\ ret = NoRet
    /\ nops = 0
    /\ processors = [q \in Procs |->
            IF q = "p1" THEN Permissive
            ELSE IF q = "p2" THEN NLProcessor({<<"a">>}, FALSE, FALSE, FALSE)
            ELSE NLProcessor({}, TRUE, TRUE, TRUE)]
    /\ IdleDispatch
    /\ frame = NoFrame

SpecEvents ==
    {[msg |-> <<"a">>, to_me |-> TRUE], [msg |-> <<>>, to_me |-> FALSE]}

RegistryCall(M) ==
    \/ \E m \in M : NLPManager_init(m)
    \/ \E q \in Procs : add_nl_processor(q)
    \/ \E q \in Procs : remove_nl_processor(q)
    \/ \E q \in Procs, state \in OptBool : switch_nlprocessor_global(q, state)
    \/ \E m \in M, q \in Procs, state \in OptBool :
          switch_nlprocessor(m, q, state)

\* The steps of the dispatch itself.  for_p_raise is not among them: it
\* needs a working set that changed size, so it belongs to the
\* specification in which other tasks call switch_nlprocessor.
DispatchStep ==
    \/ \E q \in Procs : for_p_next(q)
    \/ for_p_exit
    \/ \E b \in BOOLEAN : perm_return(b)
    \/ perm_raise
    \/ await_fut
    \/ rank
    \/ \E b \in {"True", "False"} : call_command_return(b)
    \/ call_command_raise

Next ==
    \/ RegistryCall({"m1"})
    \/ \E ev \in SpecEvents : handle_natural_language("m1", ev)
    \/ \E i \in 1..Len(futures), q \in Procs :
          \E r \in FewResults(q) : futures[i].proc = q /\ task_done(i, r)
    \/ DispatchStep
    \/ for_p_raise

Spec == Init /\ [][Next]_vars

\* SpecRegistry: the NLPManager class alone, from every registry state (any
\* class set, any managers constructed, with any working sets), MaxOps
\* calls deep.
InitRegistry ==
    /\ nl_processors \in [Mgrs -> {Null}] \cup {[m \in Mgrs |-> m]}
                         \cup {[m \in Mgrs |-> IF m = "m1" THEN m ELSE Null]}
    /\ sets \in [SetRefs -> SUBSET Procs]
    /\ \A m \in Mgrs : nl_processors[m] = Null => sets[m] = {}
    /\ ret = NoRet
    /\ nops = 0
    /\ processors = [q \in Procs |-> Permissive]
    /\ IdleDispatch
    /\ frame = NoFrame

NextRegistry == RegistryCall(Mgrs)

SpecRegistry == InitRegistry /\ [][NextRegistry]_vars

\* SpecDispatch: one dispatch after another on one manager holding every
\* processor; every processor passes the rules before the permission
\* predicate, which answers freely; the handlers finish with every kind of
\* outcome, in every order.
InitDispatch ==
    /\ sets = [r \in SetRefs |-> IF r \in {ClsRef, "m1"} THEN Procs ELSE {}]
    /\ nl_processors = [m \in Mgrs |-> IF m = "m1" THEN "m1" ELSE Null]
    /\ ret = NoRet
    /\ nops = 0
    /\ processors = [q \in Procs |-> Permissive]
    /\ IdleDispatch
    /\ frame = NoFrame

NextDispatch ==
    \/ handle_natural_language("m1", [msg |-> <<"a">>, to_me |-> TRUE])
    \/ \E i \in 1..Len(futures), q \in Procs :
          \E r \in Results(q) : futures[i].proc = q /\ task_done(i, r)
    \/ DispatchStep

SpecDispatch == InitDispatch /\ [][NextDispatch]_vars

\* SpecElig: the eligibility test under every combination of a processor's
\* rules and every event; p1 takes every combination, p2 is permissive.
InitElig ==
    /\ sets = [r \in SetRefs |->
                  IF r \in {ClsRef, "m1"} THEN {"p1", "p2"} ELSE {}]
    /\ nl_processors = [m \in Mgrs |-> IF m = "m1" THEN "m1" ELSE Null]
    /\ ret = NoRet
    /\ nops = 0
    /\ processors \in [Procs -> AllProcessors]
    /\ processors["p2"] = Permissive
    /\ processors["p3"] = Permissive
    /\ IdleDispatch
    /\ frame = NoFrame

NextElig ==
    \/ \E ev \in Events : handle_natural_language("m1", ev)
    \/ \E i \in 1..Len(futures), q \in Procs :
          \E r \in FewResults(q) : futures[i].proc = q /\ task_done(i, r)
    \/ DispatchStep

SpecElig == InitElig /\ [][NextElig]_vars

\* SpecTest: calls of NLProcessor.test on their own, one after another on
\* one session, for every combination of p1's rules, every event and every
\* length argument (omitted, or any length up to MaxMsgLen).
InitTest ==
    /\ sets = [r \in SetRefs |-> IF r = ClsRef THEN {"p1"} ELSE {}]
    /\ nl_processors = [m \in Mgrs |-> Null]
    /\ ret = NoRet
    /\ nops = 0
    /\ processors \in [Procs -> AllProcessors]
    /\ processors["p2"] = Permissive
    /\ processors["p3"] = Permissive
    /\ IdleDispatch
    /\ frame = NoFrame

LengthArgs == {<<>>} \cup {<<n>> : n \in 0..MaxMsgLen}

NextTest ==
    \/ \E ev \in Events, arg \in LengthArgs : test("p1", ev, arg)
    \/ \E b \in BOOLEAN : check_perm_return(b)
    \/ check_perm_raise

SpecTest == InitTest /\ [][NextTest]_vars

\* SpecLive: a dispatch under fair scheduling, in which whatever the
\* dispatch waits for resolves: the running coroutine goes on, the
\* permission predicate and call_command return or raise, and every handler
\* task finishes, by returning or by raising an Exception.
InitLive ==
    /\ sets = [r \in SetRefs |->
                  IF r \in {ClsRef, "m1"} THEN {"p1", "p2"} ELSE {}]
    /\ nl_processors = [m \in Mgrs |-> IF m = "m1" THEN "m1" ELSE Null]
    /\ ret = NoRet
    /\ nops = 0
    /\ processors = [q \in Procs |-> Permissive]
    /\ IdleDispatch
    /\ frame = NoFrame

LiveResults(q) == FewResults(q) \cup {ResException}

HandlerResolves ==
    \E i \in 1..Len(futures), q \in Procs :
        \E r \in LiveResults(q) : futures[i].proc = q /\ task_done(i, r)

NextLive ==
    \/ \E ev \in SpecEvents : handle_natural_language("m1", ev)
    \/ HandlerResolves
    \/ DispatchStep

SpecLive ==
    /\ InitLive
    /\ [][NextLive]_vars
    /\ WF_vars(DispatchStep)
    /\ WF_vars(HandlerResolves)

\* ================================================================== claims
\* A step that is the registry call now recorded in ret.
CallStep(op) == nops' # nops /\ ret'.op = op

\* The set object a switch call recorded in r works on.
SwitchTarget(r) ==
    IF r.op = "switch_nlprocessor_global" THEN ClsRef ELSE nl_processors[r.mgr]

\* futures[i] finished with a proposal (an IntentCommand or an NLPResult).
Proposed(i) == futures[i].st = "done" /\ IsProposal(futures[i].res)

Confidence(i) == futures[i].res.confidence

\* futures[i] holds a proposal of the highest confidence proposed.
Highest(i) ==
    /\ Proposed(i)
    /\ \A j \in 1..Len(futures) : Proposed(j) => Confidence(i) >= Confidence(j)

\* The dispatch has ranked: it called call_command or returned False.
Ranked == pc \in {"call", "done"} \/ (pc = "aborted" /\ result = "CallError")

\* The processor whose proposal was routed (a handler names its own command).
RoutedProc == calls[1].name

\* The place of futures[i] in the order of completion.
CompletionRank(i) == CHOOSE k \in 1..Len(completed) : completed[k] = i

\* ---------------------------------------------------------------------- C1
\* C1: whenever call_command is called, the routed command is the proposal
\* of a handler whose confidence is at least that of every proposal of the
\* dispatch, and no handler that finished without a proposal is its source.
C1_RoutedIsHighest ==
    calls # <<>> =>
        /\ \E i \in 1..Len(futures) : Highest(i) /\ futures[i].proc = RoutedProc
        /\ \A i \in 1..Len(futures) :
              (futures[i].st = "done" /\ ~IsProposal(futures[i].res))
                  => futures[i].proc # RoutedProc

\* C1 witness: three handlers were launched; the first returned nothing, the
\* second proposed at the threshold, the third above it: the third is routed.
C1_Witness ==
    /\ pc = "call"
    /\ Len(futures) = 3
    /\ futures[1].res.kind = "None"
    /\ Proposed(2) /\ Confidence(2) = 60
    /\ Proposed(3) /\ Confidence(3) = 75
    /\ RoutedProc = futures[3].proc

\* ---------------------------------------------------------------------- C2
\* C2: once the dispatch has ranked, if some proposal has a confidence of 60
\* or more, call_command was called, once, for a proposal of the highest
\* confidence.
C2_ThresholdInclusive ==
    (Ranked /\ \E i \in 1..Len(futures) :
                  Proposed(i) /\ Confidence(i) >= ConfidenceThreshold)
    => /\ Len(calls) = 1
       /\ \E i \in 1..Len(futures) : Highest(i) /\ futures[i].proc = RoutedProc

\* C2 witness: the highest confidence proposed is exactly 60, and its
\* proposal is routed.
C2_Witness ==
    /\ pc = "call"
    /\ \E i \in 1..Len(futures) :
          /\ Highest(i)
          /\ Confidence(i) = ConfidenceThreshold
          /\ futures[i].proc = RoutedProc

\* ---------------------------------------------------------------------- C3
\* C3: call_command is called only if some proposal has a confidence of 60
\* or more; a dispatch that returns with no such proposal (no processor
\* eligible, no proposal, or all below 60) returns False and has made no
\* call.
C3_BelowThresholdUnhandled ==
    LET clears == \E i \in 1..Len(futures) :
                      Proposed(i) /\ Confidence(i) >= ConfidenceThreshold
    IN /\ calls # <<>> => clears
       /\ (pc = "done" /\ ~clears) => (result = "False" /\ calls = <<>>)

\* C3 witness: a dispatch whose best proposal has confidence 59 returned
\* False without a call.
C3_Witness ==
    /\ pc = "done"
    /\ result = "False"
    /\ calls = <<>>
    /\ \E i \in 1..Len(futures) : Highest(i) /\ Confidence(i) = 59

C5_HandlerFaultIsolated ==
    /\ (pc = "aborted" /\ result = "BaseException")
          => futures[fi].res.kind = "BaseException"
    /\ (Ranked /\ \E i \in 1..Len(futures) : futures[i].res.kind = "Exception")
          => /\ Len(intent_commands)
                  = Cardinality({i \in 1..Len(futures) : Proposed(i)})
             /\ \A k \in 1..Len(intent_commands) :
                   \E i \in 1..Len(futures) :
                      /\ Proposed(i)
                      /\ intent_commands[k].name = futures[i].proc
                      /\ intent_commands[k].confidence = Confidence(i)
             /\ calls # <<>> <=>
                   \E i \in 1..Len(futures) :
                      Proposed(i) /\ Confidence(i) >= ConfidenceThreshold
             /\ calls # <<>> =>
                   \E i \in 1..Len(futures) :
                      Highest(i) /\ futures[i].proc = RoutedProc

\* C5 witness: the handler launched first raised an Exception, the second
\* proposed with confidence 75, and the second's command is routed.
C5_Witness ==
    /\ pc = "call"
    /\ Len(futures) = 2
    /\ futures[1].res.kind = "Exception"
    /\ Proposed(2) /\ Confidence(2) = 75
    /\ RoutedProc = futures[2].proc

\* ---------------------------------------------------------------------- C8
\* C8: no handler is launched for a processor with allow_empty_message =
\* False when the raw message of the event is empty.
C8_EmptyMessageNeverHandled ==
    \A i \in 1..Len(futures) :
        ~(~processors[futures[i].proc].allow_empty_message /\ event.msg = <<>>)

\* C8 witness: a dispatch of an empty message tested p1, which does not
\* allow empty messages and has no other rule against this event, launched
\* only the handler of p2, and finished.
C8_Witness ==
    /\ pc = "done"
    /\ event.msg = <<>>
    /\ ~processors["p1"].allow_empty_message
    /\ ~processors["p1"].only_to_me
    /\ processors["p1"].keywords = {}
    /\ it.yielded = {"p1", "p2"}
    /\ Len(futures) = 1 /\ futures[1].proc = "p2"

\* ---------------------------------------------------------------------- C6
\* C6: a registry call on the process-wide set (add_nl_processor,
\* remove_nl_processor, switch_nlprocessor_global), made at any point and in
\* particular while a dispatch is suspended, changes no manager's working
\* set and nothing of the dispatch (its iterator, its futures, its position,
\* its result): the dispatch goes on over the copy its manager took.
C6_GlobalMutationNotObserved ==
    [][(\/ CallStep("add_nl_processor")
        \/ CallStep("remove_nl_processor")
        \/ CallStep("switch_nlprocessor_global"))
       => /\ \A m \in Mgrs : Constructed(m) =>
                /\ nl_processors'[m] = nl_processors[m]
                /\ sets'[nl_processors[m]] = sets[nl_processors[m]]
          /\ UNCHANGED dispvars]_vars

\* C6 witness: while the dispatch is suspended in the test of a processor,
\* that processor was removed from the process-wide set, and the dispatch
\* still launched its handler and finished.
C6_Witness ==
    /\ pc = "done"
    /\ ret.op = "remove_nl_processor" /\ ret.val = "True" /\ ret.at = "perm"
    /\ ret.proc \notin cls_nl_processors
    /\ \E i \in 1..Len(futures) : futures[i].proc = ret.proc
    /\ it.yielded = WorkingSet(manager)
    /\ ~it.dirty

\* ---------------------------------------------------------------------- C7
\* C7: a switch_nlprocessor call on one manager leaves the process-wide set
\* and the working set of every other constructed manager as they were.
C7_InstanceToggleIsLocal ==
    [][CallStep("switch_nlprocessor")
       => /\ sets'[ClsRef] = sets[ClsRef]
          /\ \A m \in Mgrs \ {ret'.mgr} : Constructed(m) =>
                /\ nl_processors'[m] = nl_processors[m]
                /\ sets'[nl_processors[m]] = sets[nl_processors[m]]]_vars

\* C7 witness: a processor was toggled off on one manager and is still in
\* the process-wide set and in the working set of another manager.
C7_Witness ==
    /\ ret.op = "switch_nlprocessor" /\ ret.val = "True"
    /\ ret.proc \notin WorkingSet(ret.mgr)
    /\ ret.proc \in cls_nl_processors
    /\ \E m \in Mgrs \ {ret.mgr} : Constructed(m) /\ ret.proc \in WorkingSet(m)

\* ---------------------------------------------------------------------- C9
\* C9: add_nl_processor of a processor that is already registered changes
\* no set, leaves the size of the registry as it was, warns and returns
\* normally; after any add_nl_processor the processor is registered.
C9_DuplicateRegistrationIsNoOp ==
    [][CallStep("add_nl_processor")
       => /\ ret'.proc \in sets'[ClsRef]
          /\ ret'.val = "None"
          /\ ret'.proc \in sets[ClsRef] =>
                /\ sets' = sets
                /\ Cardinality(sets'[ClsRef]) = Cardinality(sets[ClsRef])
                /\ ret'.warned
          /\ ret'.proc \notin sets[ClsRef] =>
                /\ sets'[ClsRef] = sets[ClsRef] \cup {ret'.proc}
                /\ ~ret'.warned]_vars

\* C9 witness: a duplicate registration has just warned.
C9_Witness ==
    /\ ret.op = "add_nl_processor" /\ ret.warned /\ ret.val = "None"
    /\ ret.proc \in cls_nl_processors

\* --------------------------------------------------------------------- C10
\* C10: for both switch calls, every membership and every state argument:
\* True is returned exactly when the processor was present and state is
\* False or omitted, and then it is removed; False exactly when it was
\* absent and state is True or omitted, and then it is added; None in the
\* two remaining combinations, and then the set is unchanged.  Afterwards
\* state=True implies present, state=False implies absent.
C10_SwitchTable ==
    [][(CallStep("switch_nlprocessor_global") \/ CallStep("switch_nlprocessor"))
       => LET r == SwitchTarget(ret')
              q == ret'.proc
              st == ret'.state
              v == ret'.val
              pre == sets[r]
              post == sets'[r]
          IN /\ v \in OptBool
             /\ (v = "True") <=> (q \in pre /\ st \in {"False", "None"})
             /\ (v = "False") <=> (q \notin pre /\ st \in {"True", "None"})
             /\ (v = "None") <=> \/ q \in pre /\ st = "True"
                                 \/ q \notin pre /\ st = "False"
             /\ (v = "True") => post = pre \ {q}
             /\ (v = "False") => post = pre \cup {q}
             /\ (v = "None") => post = pre
             /\ (st = "True") => q \in post
             /\ (st = "False") => q \notin post]_vars

\* C10 witness: a toggle with the state omitted has added an absent
\* processor to a manager's working set and returned False.
C10_Witness ==
    /\ ret.op = "switch_nlprocessor" /\ ret.state = "None"
    /\ ret.val = "False"
    /\ ret.proc \in WorkingSet(ret.mgr)

\* --------------------------------------------------------------------- C11
\* C11: a dispatch calls call_command at most once; the call carries the
\* name, args and current_arg of a proposal of the highest confidence (an
\* NLPResult's current_arg being the empty default) and check_perm=False;
\* and a dispatch that returns after the call returns what the call
\* returned.
C11_RoutesOnceWithChosen ==
    /\ Len(calls) <= 1
    /\ calls # <<>> =>
          /\ calls[1].check_perm = FALSE
          /\ \E i \in 1..Len(futures) :
                /\ Highest(i)
                /\ calls[1].name = futures[i].res.name
                /\ calls[1].args = futures[i].res.args
                /\ calls[1].current_arg =
                      IF futures[i].res.kind = "NLPResult"
                        THEN "" ELSE futures[i].res.current_arg
    /\ (pc = "done" /\ calls # <<>>) =>
          /\ calls[1].returned \in {"True", "False"}
          /\ result = calls[1].returned

\* C11 witness: a dispatch routed an IntentCommand with its args and
\* current_arg, call_command returned False, and so did the dispatch.
C11_Witness ==
    /\ pc = "done"
    /\ Len(calls) = 1
    /\ calls[1].args = "args" /\ calls[1].current_arg = "x"
    /\ calls[1].returned = "False"
    /\ result = "False"

\* --------------------------------------------------------------------- C14
\* C14: once the dispatch has ranked (and so whenever call_command was
\* called) every handler launched in it has finished, by returning or by
\* raising, and every launched handler has been awaited.
C14_RankOnlyAfterAllCompleted ==
    (Ranked \/ calls # <<>>) =>
        /\ \A i \in 1..Len(futures) : futures[i].st = "done"
        /\ Len(completed) = Len(futures)
        /\ futures # <<>> => fi = Len(futures) + 1

\* C14 witness: the first handler to finish proposed with confidence 75, a
\* second raised an Exception, and the call was made after all three
\* handlers had finished.
C14_Witness ==
    /\ pc = "call"
    /\ Len(futures) = 3
    /\ Len(completed) = 3
    /\ LET first == completed[1] IN
          /\ futures[first].res.kind = "IntentCommand"
          /\ Confidence(first) = 75
    /\ \E i \in 1..3 : futures[i].res.kind = "Exception"

\* --------------------------------------------------------------------- C16
\* C16: the outcome of a dispatch that has ranked is given by the results of
\* its handlers alone, whatever the order in which they finished: a call was
\* made exactly if the highest confidence proposed is 60 or more, and the
\* proposal routed is one of that highest confidence.
C16_OutcomeIgnoresCompletionOrder ==
    Ranked =>
        LET best == {i \in 1..Len(futures) : Highest(i)} IN
        /\ (calls # <<>>) <=>
              (\E i \in best : Confidence(i) >= ConfidenceThreshold)
        /\ calls # <<>> =>
              /\ intent_commands[1].confidence \in {Confidence(i) : i \in best}
              /\ \E i \in best : RoutedProc = futures[i].proc
                                 /\ intent_commands[1].name = RoutedProc

\* C16 witness: three handlers finished in the reverse of the order of
\* their launch, with different confidences; the one launched second, of
\* the highest confidence, is routed.
C16_Witness ==
    /\ pc = "call"
    /\ completed = <<3, 2, 1>>
    /\ Proposed(1) /\ Confidence(1) = 60
    /\ Proposed(2) /\ Confidence(2) = 75
    /\ Proposed(3) /\ Confidence(3) = 59
    /\ RoutedProc = futures[2].proc

\* --------------------------------------------------------------------- C17
\* What the outcome r of one handler adds to the ranking, as C17 states it.
Contribution(r) ==
    IF r.kind = "IntentCommand" THEN <<r>>
    ELSE IF r.kind = "NLPResult"
      THEN <<[kind |-> "IntentCommand", confidence |-> r.confidence,
              name |-> r.name, args |-> r.args, current_arg |-> ""]>>
      ELSE <<>>

\* The contributions of the first k futures, in the order of the list.
RECURSIVE Contributions(_)
Contributions(k) ==
    IF k = 0 THEN <<>>
    ELSE Contributions(k - 1) \o Contribution(futures[k].res)

\* C17: while the futures are awaited, the proposals collected are the
\* contributions of the futures awaited so far, each none or one: an
\* IntentCommand as it is, an NLPResult as an IntentCommand with its
\* confidence, name and args and an empty current_arg, nothing for anything
\* else.  The proposals never outnumber the launched handlers.
C17_ZeroOrOneProposalEach ==
    /\ pc = "gather" => intent_commands = Contributions(fi - 1)
    /\ Len(intent_commands) <= Len(futures)
    /\ Ranked => Len(intent_commands) = Len(Contributions(Len(futures)))

\* C17 witness: three handlers returned an NLPResult, None and an
\* IntentCommand; two proposals are collected, the first converted.
C17_Witness ==
    /\ pc = "gather"
    /\ fi = 4
    /\ futures[1].res.kind = "NLPResult"
    /\ futures[2].res.kind = "None"
    /\ futures[3].res.kind = "IntentCommand"
    /\ Len(intent_commands) = 2
    /\ intent_commands[1] = IntentCommand(59, futures[1].proc, "args", "")
    /\ intent_commands[2] = futures[3].res

\* --------------------------------------------------------------------- C13
\* C13 as claimed: a permission predicate that raises makes its processor
\* ineligible and nothing more: the dispatch never ends by raising the
\* predicate's exception, and once the test loop is over every processor of
\* the working set has been tested.
C13_PermFaultFailsClosed ==
    /\ ~(pc = "aborted" /\ result = "PermError")
    /\ (pc \in {"gather", "call", "done", "aborted"} /\ it.ref # Null)
          => it.yielded = it.start

\* --------------------------------------------------------------------- C20
\* C20 as claimed: whatever switch_nlprocessor does to the dispatch's own
\* manager while the dispatch is suspended, the dispatch does not fail in
\* its loop, tests no processor twice and none from outside the working set
\* it started with, and has tested all of that set when the loop is over.
C20_IsolatedFromOwnToggles ==
    /\ ~(pc = "aborted" /\ result = "RuntimeError")
    /\ it.yielded \subseteq it.start
    /\ it.n = Cardinality(it.yielded)
    /\ (pc \in {"gather", "call", "done"} /\ it.ref # Null)
          => it.yielded = it.start

\* --------------------------------------------------------------------- C15
\* The place of a position of the dispatch in the order of its phases:
\* testing (with launching), joining, the routing call, the end.
PhaseOrder(at) ==
    IF at \in {"loop", "perm"} THEN 1
    ELSE IF at = "gather" THEN 2
    ELSE IF at = "call" THEN 3
    ELSE IF at \in {"done", "aborted"} THEN 4
    ELSE 0

\* Processors of the working set whose test has not begun.
Untested == it.start \ it.yielded

ClaimedTest(P, ev, answer) ==
    /\ P.allow_empty_message \/ ev.msg # <<>>
    /\ ~P.only_short_message
          \/ Len(msg_text(ev.msg)) <= SHORT_MESSAGE_MAX_LENGTH
    /\ ~P.only_to_me \/ ev.to_me
    /\ answer
    /\ P.keywords = {}
          \/ \E kw \in P.keywords : IsSubstring(kw, msg_text(ev.msg))

\* The length argument was omitted or is the length of the transcript.
OmittedOrPrecomputed(ev, arg) ==
    arg = <<>> \/ arg = <<Len(msg_text(ev.msg))>>

\* C12: a call of test that returned, made with the length omitted or
\* precomputed, returned the value of the closed form (False without
\* asking the permission predicate only if the three rules before it
\* already fail); and it returned what the previous call on the same
\* processor and session returned, whichever of the two ways the length was
\* given, if the permission predicate answered the same.
C12_TestIsClosedForm ==
    (frame.at = "returned" /\ OmittedOrPrecomputed(frame.ev, frame.arg)) =>
        LET P == processors[frame.proc] IN
        /\ frame.perm_calls = 1
              => frame.value = ClaimedTest(P, frame.ev, frame.answer)
        /\ frame.perm_calls = 0
              => /\ frame.value = FALSE
                 /\ \A b \in BOOLEAN : ~ClaimedTest(P, frame.ev, b)
        /\ (/\ frame.prev.valid
            /\ OmittedOrPrecomputed(frame.ev, frame.prev.arg)
            /\ frame.prev.answer = frame.answer)
              => frame.value = frame.prev.value

\* C12 witness: test returned True with the length omitted after it had
\* returned True with the length precomputed, for a processor with every
\* rule set, keywords included, on a message with an image segment.
C12_Witness ==
    /\ frame.at = "returned"
    /\ frame.arg = <<>>
    /\ frame.value = TRUE
    /\ frame.prev.valid /\ frame.prev.arg = <<1>> /\ frame.prev.value = TRUE
    /\ frame.ev.msg = <<"a", "I">>
    /\ LET P == processors[frame.proc] IN
          /\ P.only_short_message /\ P.only_to_me /\ ~P.allow_empty_message
          /\ P.keywords # {}

\* --------------------------------------------------------------------- C18
\* One of the three rules before the permission predicate makes processor
\* P ineligible for event ev.
FailsBeforePerm(P, ev) ==
    \/ ~P.allow_empty_message /\ ev.msg = <<>>
    \/ P.only_short_message /\ Len(msg_text(ev.msg)) > SHORT_MESSAGE_MAX_LENGTH
    \/ P.only_to_me /\ ~ev.to_me

\* C18: in one call of test the permission predicate is called at most
\* once, and not at all if the empty-message, short-message or to_me rule
\* fails; the keyword loop runs only after the predicate has returned true.
C18_RulesShortCircuit ==
    frame.at # "-" =>
        /\ frame.perm_calls <= 1
        /\ (OmittedOrPrecomputed(frame.ev, frame.arg)
            /\ FailsBeforePerm(processors[frame.proc], frame.ev))
              => (frame.perm_calls = 0 /\ frame.at = "returned"
                  /\ ~frame.value)
        /\ frame.kw_tested
              => (frame.at = "returned" /\ frame.perm_calls = 1
                  /\ frame.answer)
        /\ (frame.at = "returned" /\ frame.perm_calls = 1 /\ ~frame.answer)
              => (~frame.kw_tested /\ ~frame.value)

\* C18 witness: the permission predicate was called once and answered
\* False for a processor with keywords, one of them in the message: test
\* returned False and the keyword loop did not run.
C18_Witness ==
    /\ frame.at = "returned"
    /\ frame.perm_calls = 1
    /\ ~frame.answer
    /\ ~frame.kw_tested
    /\ \E kw \in processors[frame.proc].keywords :
          IsSubstring(kw, msg_text(frame.ev.msg))

\* --------------------------------------------------------------------- C19
\* C19 as claimed: when everything the dispatch waits for resolves, every
\* dispatch in flight comes to its handled/unhandled result: it returns,
\* or what call_command raised passes through as its result.
C19_EveryDispatchReturns ==
    InFlight ~> (pc = "done" \/ (pc = "aborted" /\ result = "CallError"))

\* What does hold under the same fairness: every dispatch in flight comes
\* to return or to raise.
C19_ReturnsOrRaises == InFlight ~> (pc \in {"done", "aborted"})

\* There is no timeout: while the awaited future is pending, the dispatch
\* stays where it is.
C19_NoTimeout ==
    [][AwaitingFut => (pc' = pc /\ fi' = fi /\ result' = result)]_vars

====
